---- MODULE Spec2Model ----
(***************************************************************************)
(* Model of dwb_plugins::KinematicParameters                               *)
(* (nav2_dwb_controller/dwb_plugins/src/kinematic_parameters.cpp).         *)
(*                                                                         *)
(* Doubles are modelled by small integers: every product and comparison    *)
(* the code performs is exact on them, as it is on the doubles they stand  *)
(* for.  NaN and infinities are outside the model.                         *)
(***************************************************************************)
EXTENDS Integers, Sequences, FiniteSets, TLC

VARIABLES
  kp,            \* the KinematicParameters object: 14 limits and 2 caches
  params,        \* the node's parameter store (name -> value, partial)
  config,        \* the parameters the node was started with
  callback_set,  \* dsrv_->set_callback has run (initialize is complete)
  event,         \* the batch the dynamic-parameter client currently carries
  last,          \* the operation that returned last, its arguments and result
  cb_pc,         \* per configuration thread: next statement of reconfigureCB
  cb_event,      \* per configuration thread: the batch its execution reads
  queue,         \* change notifications waiting to be dispatched
  started,       \* batches whose reconfigureCB execution has begun, in order
  notified,      \* number of change notifications received so far
  rpc,           \* planning thread: position inside isValidSpeed
  rcmd,          \* planning thread: the (x, y, theta) of the running call
  regs,          \* planning thread: the field values the call has loaded
  published,     \* the limit set as the last completed operation left it
  snaps          \* the limit sets before and after the updates the call overlaps

vars == <<kp, params, config, callback_set, event, last, cb_pc, cb_event,
          queue, started, notified, rpc, rcmd, regs, published, snaps>>

----------------------------------------------------------------------------
(* Bounds *)

MaxVal == 2
MaxCmd == 1
MaxNotifications == 2

\* Limit values: -1 is the "disabled" sentinel, 0 the default, 1..MaxVal bounds.
Vals == (0 - 1)..MaxVal
\* Command components.
CmdVals == (0 - MaxCmd)..MaxCmd

----------------------------------------------------------------------------
(* Names *)

\* The names registered with the dynamic-parameter client.
Names ==
  {"min_vel_x", "min_vel_y", "max_vel_x", "max_vel_y", "max_vel_theta",
   "min_speed_xy", "max_speed_xy", "min_speed_theta",
   "acc_lim_x", "acc_lim_y", "acc_lim_theta",
   "decel_lim_x", "decel_lim_y", "decel_lim_theta"}

\* UPDATE_PARAMETER(name) writes the member name ## _.
Member ==
  [min_vel_x |-> "min_vel_x_", min_vel_y |-> "min_vel_y_",
   max_vel_x |-> "max_vel_x_", max_vel_y |-> "max_vel_y_",
   max_vel_theta |-> "max_vel_theta_",
   min_speed_xy |-> "min_speed_xy_", max_speed_xy |-> "max_speed_xy_",
   min_speed_theta |-> "min_speed_theta_",
   acc_lim_x |-> "acc_lim_x_", acc_lim_y |-> "acc_lim_y_",
   acc_lim_theta |-> "acc_lim_theta_",
   decel_lim_x |-> "decel_lim_x_", decel_lim_y |-> "decel_lim_y_",
   decel_lim_theta |-> "decel_lim_theta_"]

\* initialize with the two names of every rename exchanged
Renamed_exchanged ==
  <<  <<"max_rot_vel", "max_vel_theta">>,
      <<"min_trans_vel", "min_speed_xy">>,
      <<"max_trans_vel", "max_speed_xy">>,
      <<"min_rot_vel", "min_speed_theta">>  >>

\* The renamed parameters, as initialize lists them: <<current, old>>.
Renamed ==
  <<  <<"max_vel_theta", "max_rot_vel">>,
      <<"min_speed_xy", "min_trans_vel">>,
      <<"max_speed_xy", "max_trans_vel">>,
      <<"min_speed_theta", "min_rot_vel">>  >>

Dimensions == <<"x", "y", "theta">>

\* "decel_lim_" + dimension and "acc_lim_" + dimension
DecelParam == [x |-> "decel_lim_x", y |-> "decel_lim_y", theta |-> "decel_lim_theta"]
AccelParam == [x |-> "acc_lim_x", y |-> "acc_lim_y", theta |-> "acc_lim_theta"]

EmptyMap == [n \in {} |-> 0]

----------------------------------------------------------------------------
(* The object *)

\* a constructor that starts with the top planar speed disabled
Constructed_disabled ==
  [min_vel_x_ |-> 0, min_vel_y_ |-> 0, max_vel_x_ |-> 0, max_vel_y_ |-> 0,
   max_vel_theta_ |-> 0,
   min_speed_xy_ |-> 0, max_speed_xy_ |-> 0 - 1, min_speed_theta_ |-> 0,
   acc_lim_x_ |-> 0, acc_lim_y_ |-> 0, acc_lim_theta_ |-> 0,
   decel_lim_x_ |-> 0, decel_lim_y_ |-> 0, decel_lim_theta_ |-> 0,
   min_speed_xy_sq_ |-> 0, max_speed_xy_sq_ |-> 0]

\* KinematicParameters::KinematicParameters(): every member is 0.0
Constructed ==
  [min_vel_x_ |-> 0, min_vel_y_ |-> 0, max_vel_x_ |-> 0, max_vel_y_ |-> 0,
   max_vel_theta_ |-> 0,
   min_speed_xy_ |-> 0, max_speed_xy_ |-> 0, min_speed_theta_ |-> 0,
   acc_lim_x_ |-> 0, acc_lim_y_ |-> 0, acc_lim_theta_ |-> 0,
   decel_lim_x_ |-> 0, decel_lim_y_ |-> 0, decel_lim_theta_ |-> 0,
   min_speed_xy_sq_ |-> 0, max_speed_xy_sq_ |-> 0]

----------------------------------------------------------------------------
(* initialize *)

\* rclcpp::Node::get_parameter(name, out): true iff the parameter is set
has_parameter(p, name) == name \in DOMAIN p

\* rclcpp::Node::set_parameters({Parameter(name, value)})
set_parameter(p, name, value) ==
  [n \in (DOMAIN p) \cup {name} |-> IF n = name THEN value ELSE p[n]]

\* nav_2d_utils::moveDeprecatedParameter<double>(nh, current_name, old_name):
\* the old name's value is moved to the current name unless the current name
\* already has a value of its own.
moveDeprecatedParameter(p, current_name, old_name) ==
  IF ~has_parameter(p, old_name) THEN p
  ELSE IF has_parameter(p, current_name) THEN p
  ELSE set_parameter(p, current_name, p[old_name])

\* setDecelerationAsNeeded without its first early return
setDecelerationAsNeeded_always(p, dimension) ==
  IF ~has_parameter(p, AccelParam[dimension]) THEN p
  ELSE set_parameter(p, DecelParam[dimension], 0 - p[AccelParam[dimension]])

\* setDecelerationAsNeeded(nh, dimension)
setDecelerationAsNeeded(p, dimension) ==
  IF has_parameter(p, DecelParam[dimension]) THEN p
  ELSE IF ~has_parameter(p, AccelParam[dimension]) THEN p
  ELSE set_parameter(p, DecelParam[dimension], 0 - p[AccelParam[dimension]])

RECURSIVE moveAll(_, _)
moveAll(p, i) ==
  IF i > Len(Renamed) THEN p
  ELSE moveAll(moveDeprecatedParameter(p, Renamed[i][1], Renamed[i][2]), i + 1)

RECURSIVE decelAll(_, _)
decelAll(p, i) ==
  IF i > Len(Dimensions) THEN p
  ELSE decelAll(setDecelerationAsNeeded(p, Dimensions[i]), i + 1)

\* KinematicParameters::initialize, as a function of the parameter store:
\* the four renames in order, then the three deceleration defaults in order.
initialize(p) == decelAll(moveAll(p, 1), 1)

----------------------------------------------------------------------------
(* reconfigureCB *)

\* DynamicParamsClient::get_event_param_or(name, member, 0.0): the member
\* receives the batch's value for the name, or the default when the batch
\* does not carry the name.
get_event_param_or(o, ev, name, default) ==
  [o EXCEPT ![Member[name]] = IF name \in DOMAIN ev THEN ev[name] ELSE default]

\* UPDATE_PARAMETER with the member's current value as the default
UPDATE_PARAMETER_keep(o, ev, name) ==
  get_event_param_or(o, ev, name, o[Member[name]])

UPDATE_PARAMETER(o, ev, name) == get_event_param_or(o, ev, name, 0)

\* reconfigureCB with the caches computed before the speed bounds are updated
Statements_stale ==
  <<  <<"update", "min_vel_x">>,
      <<"update", "min_vel_y">>,
      <<"update", "max_vel_x">>,
      <<"update", "max_vel_y">>,
      <<"update", "max_vel_theta">>,
      <<"square", "min_speed_xy">>,
      <<"square", "max_speed_xy">>,
      <<"update", "min_speed_xy">>,
      <<"update", "max_speed_xy">>,
      <<"update", "min_speed_theta">>,
      <<"update", "acc_lim_x">>,
      <<"update", "acc_lim_y">>,
      <<"update", "acc_lim_theta">>,
      <<"update", "decel_lim_x">>,
      <<"update", "decel_lim_y">>,
      <<"update", "decel_lim_theta">>  >>

\* The statements of reconfigureCB in source order.
Statements ==
  <<  <<"update", "min_vel_x">>,
      <<"update", "min_vel_y">>,
      <<"update", "max_vel_x">>,
      <<"update", "max_vel_y">>,
      <<"update", "max_vel_theta">>,
      <<"update", "min_speed_xy">>,
      <<"update", "max_speed_xy">>,
      <<"square", "min_speed_xy">>,
      <<"square", "max_speed_xy">>,
      <<"update", "min_speed_theta">>,
      <<"update", "acc_lim_x">>,
      <<"update", "acc_lim_y">>,
      <<"update", "acc_lim_theta">>,
      <<"update", "decel_lim_x">>,
      <<"update", "decel_lim_y">>,
      <<"update", "decel_lim_theta">>  >>

NumStatements == Len(Statements)

\* The object after statement i of reconfigureCB has run on object o.
Statement(o, ev, i) ==
  IF Statements[i][1] = "update"
  THEN UPDATE_PARAMETER(o, ev, Statements[i][2])
  ELSE IF Statements[i][2] = "min_speed_xy"
       THEN [o EXCEPT !.min_speed_xy_sq_ = o.min_speed_xy_ * o.min_speed_xy_]
       ELSE [o EXCEPT !.max_speed_xy_sq_ = o.max_speed_xy_ * o.max_speed_xy_]

RECURSIVE runFrom(_, _, _)
runFrom(o, ev, i) ==
  IF i > NumStatements THEN o ELSE runFrom(Statement(o, ev, i), ev, i + 1)

\* KinematicParameters::reconfigureCB run to completion on object o.
reconfigureCB(o, ev) == runFrom(o, ev, 1)

----------------------------------------------------------------------------
(* isValidSpeed *)

fabs(v) == IF v < 0 THEN 0 - v ELSE v

\* isValidSpeed rejecting a command that is too slow in translation OR rotation
isValidSpeed_either(o, x, y, theta) ==
  LET vmag_sq == x * x + y * y IN
  IF o.max_speed_xy_ >= 0 /\ vmag_sq > o.max_speed_xy_sq_ THEN FALSE
  ELSE IF (o.min_speed_xy_ >= 0 /\ vmag_sq < o.min_speed_xy_sq_)
          \/ (o.min_speed_theta_ >= 0 /\ fabs(theta) < o.min_speed_theta_) THEN FALSE
  ELSE IF vmag_sq = 0 /\ theta = 0 THEN FALSE
  ELSE TRUE

\* isValidSpeed without the test for the zero command
isValidSpeed_nozero(o, x, y, theta) ==
  LET vmag_sq == x * x + y * y IN
  IF o.max_speed_xy_ >= 0 /\ vmag_sq > o.max_speed_xy_sq_ THEN FALSE
  ELSE IF o.min_speed_xy_ >= 0 /\ vmag_sq < o.min_speed_xy_sq_
          /\ o.min_speed_theta_ >= 0 /\ fabs(theta) < o.min_speed_theta_ THEN FALSE
  ELSE TRUE

\* isValidSpeed without the "bound is enabled" tests
isValidSpeed_unguarded(o, x, y, theta) ==
  LET vmag_sq == x * x + y * y IN
  IF vmag_sq > o.max_speed_xy_sq_ THEN FALSE
  ELSE IF vmag_sq < o.min_speed_xy_sq_ /\ fabs(theta) < o.min_speed_theta_ THEN FALSE
  ELSE IF vmag_sq = 0 /\ theta = 0 THEN FALSE
  ELSE TRUE

\* KinematicParameters::isValidSpeed(x, y, theta) on object o
isValidSpeed(o, x, y, theta) ==
  LET vmag_sq == x * x + y * y IN
  IF o.max_speed_xy_ >= 0 /\ vmag_sq > o.max_speed_xy_sq_ THEN FALSE
  ELSE IF o.min_speed_xy_ >= 0 /\ vmag_sq < o.min_speed_xy_sq_
          /\ o.min_speed_theta_ >= 0 /\ fabs(theta) < o.min_speed_theta_ THEN FALSE
  ELSE IF vmag_sq = 0 /\ theta = 0 THEN FALSE
  ELSE TRUE

----------------------------------------------------------------------------
(* Inputs *)

\* A batch carries any of the three speed bounds, or one other name.
ParamGroups ==
  {{"min_speed_xy", "max_speed_xy", "min_speed_theta"}}
    \cup {{n} : n \in Names}

BatchDomains == UNION {SUBSET g : g \in ParamGroups}

Batches == UNION {[D -> Vals] : D \in BatchDomains}

\* Batches that carry every registered name with one value, and the empty batch.
UniformBatches == {[n \in Names |-> v] : v \in Vals} \cup {EmptyMap}

\* Commands: x, y >= 0 suffice, since they enter only as x * x + y * y.
Cmds == (0..MaxCmd) \X (0..MaxCmd) \X CmdVals

\* Commands issued while an update may be running.
ConcCmds == (0..MaxCmd) \X {0} \X (0..MaxCmd)

\* Start-up configurations: the parameters of one renamed pair and of one axis,
\* each set to a value or left unset.
Configs ==
  UNION {UNION {[D -> Vals] :
                  D \in SUBSET {Renamed[i][1], Renamed[i][2], AccelParam[d], DecelParam[d]}} :
           i \in 1..Len(Renamed), d \in {"x", "y", "theta"}}

Threads == {"cfg1", "cfg2"}

NoCall == [op |-> "none", x |-> 0, y |-> 0, theta |-> 0, ret |-> FALSE]

----------------------------------------------------------------------------
(* State after construction *)

InitWith(cfgs) ==
  /\ kp = Constructed
  /\ config \in cfgs
  /\ params = config
  /\ callback_set = FALSE
  /\ event = EmptyMap
  /\ last = NoCall
  /\ cb_pc = [t \in Threads |-> 0]
  /\ cb_event = [t \in Threads |-> EmptyMap]
  /\ queue = << >>
  /\ started = << >>
  /\ notified = 0
  /\ rpc = "idle"
  /\ rcmd = <<0, 0, 0>>
  /\ regs = EmptyMap
  /\ published = Constructed
  /\ snaps = {}

Init == InitWith({EmptyMap})

InitCfg == InitWith(Configs)

----------------------------------------------------------------------------
(* Operations run to completion *)

Initialize ==
  /\ ~callback_set
  /\ params' = initialize(params)
  /\ callback_set' = TRUE
  /\ last' = [NoCall EXCEPT !.op = "initialize"]
  /\ UNCHANGED <<kp, config, event, cb_pc, cb_event, queue, started, notified,
                 rpc, rcmd, regs, published, snaps>>

ReconfigureCB(b) ==
  /\ callback_set
  /\ event' = b
  /\ kp' = reconfigureCB(kp, b)
  /\ published' = kp'
  /\ last' = [NoCall EXCEPT !.op = "reconfigureCB"]
  /\ UNCHANGED <<params, config, callback_set, cb_pc, cb_event, queue, started,
                 notified, rpc, rcmd, regs, snaps>>

IsValidSpeed(x, y, theta) ==
  /\ last' = [op |-> "isValidSpeed", x |-> x, y |-> y, theta |-> theta,
              ret |-> isValidSpeed(kp, x, y, theta)]
  /\ UNCHANGED <<kp, params, config, callback_set, event, cb_pc, cb_event, queue,
                 started, notified, rpc, rcmd, regs, published, snaps>>

Next ==
  \/ Initialize
  \/ \E b \in Batches : ReconfigureCB(b)
  \/ \E c \in Cmds : IsValidSpeed(c[1], c[2], c[3])

Spec == Init /\ [][Next]_vars

\* Start-up alone, over every start-up configuration.
NextInit == Initialize

SpecInit == InitCfg /\ [][NextInit]_vars

----------------------------------------------------------------------------
(* Operations statement by statement *)

\* The dynamic-parameter client runs one callback at a time: a notification
\* is dispatched only when no execution of the callback is in progress.
may_dispatch_always(pcs) == TRUE

may_dispatch(pcs) == \A t \in DOMAIN pcs : pcs[t] = 0

\* A change notification arrives and waits for dispatch.
Notify(b) ==
  /\ callback_set
  /\ notified < MaxNotifications
  /\ queue' = Append(queue, b)
  /\ notified' = notified + 1
  /\ UNCHANGED <<kp, params, config, callback_set, event, last, cb_pc, cb_event,
                 started, rpc, rcmd, regs, published, snaps>>

\* The client hands the oldest waiting batch to the callback on thread t.
Dispatch(t) ==
  /\ queue # << >>
  /\ cb_pc[t] = 0
  /\ may_dispatch(cb_pc)
  /\ cb_pc' = [cb_pc EXCEPT ![t] = 1]
  /\ cb_event' = [cb_event EXCEPT ![t] = Head(queue)]
  /\ event' = Head(queue)
  /\ started' = Append(started, Head(queue))
  /\ queue' = Tail(queue)
  /\ snaps' = IF rpc = "idle" THEN snaps
              ELSE snaps \cup {reconfigureCB(kp, Head(queue))}
  /\ UNCHANGED <<kp, params, config, callback_set, last, notified, rpc, rcmd,
                 regs, published>>

\* Thread t executes its next statement of reconfigureCB.
reconfigureCBStep(t) ==
  /\ cb_pc[t] # 0
  /\ kp' = Statement(kp, cb_event[t], cb_pc[t])
  /\ IF cb_pc[t] = NumStatements
     THEN /\ cb_pc' = [cb_pc EXCEPT ![t] = 0]
          /\ published' = kp'
          /\ last' = [NoCall EXCEPT !.op = "reconfigureCB"]
     ELSE /\ cb_pc' = [cb_pc EXCEPT ![t] = cb_pc[t] + 1]
          /\ UNCHANGED <<published, last>>
  /\ UNCHANGED <<params, config, callback_set, event, cb_event, queue, started,
                 notified, rpc, rcmd, regs, snaps>>

\* The member each load of isValidSpeed reads, by source line and position.
LoadField ==
  [L134a |-> "max_speed_xy_", L134b |-> "max_speed_xy_sq_",
   L135a |-> "min_speed_xy_", L135b |-> "min_speed_xy_sq_",
   L136a |-> "min_speed_theta_", L136b |-> "min_speed_theta_"]

\* Line 137 and 138: the value returned once neither bound test rejected.
Line137(c) == ~(c[1] * c[1] + c[2] * c[2] = 0 /\ c[3] = 0)

Goto(pc) == [done |-> FALSE, pc |-> pc, ret |-> FALSE]
Return(r) == [done |-> TRUE, pc |-> "idle", ret |-> r]

\* Where isValidSpeed goes after the load at pc has read the value v.
AfterLoad(pc, v, c) ==
  LET vmag_sq == c[1] * c[1] + c[2] * c[2] IN
  CASE pc = "L134a" -> IF v >= 0 THEN Goto("L134b") ELSE Goto("L135a")
    [] pc = "L134b" -> IF vmag_sq > v THEN Return(FALSE) ELSE Goto("L135a")
    [] pc = "L135a" -> IF v >= 0 THEN Goto("L135b") ELSE Return(Line137(c))
    [] pc = "L135b" -> IF vmag_sq < v THEN Goto("L136a") ELSE Return(Line137(c))
    [] pc = "L136a" -> IF v >= 0 THEN Goto("L136b") ELSE Return(Line137(c))
    [] pc = "L136b" -> IF fabs(c[3]) < v THEN Return(FALSE) ELSE Return(Line137(c))

\* The planning thread calls isValidSpeed(c).
isValidSpeedCall(c) ==
  /\ rpc = "idle"
  /\ rpc' = "L134a"
  /\ rcmd' = c
  /\ regs' = EmptyMap
  /\ snaps' = {published}
               \cup {reconfigureCB(kp, cb_event[t]) : t \in {u \in Threads : cb_pc[u] # 0}}
  /\ UNCHANGED <<kp, params, config, callback_set, event, last, cb_pc, cb_event,
                 queue, started, notified, published>>

\* The planning thread performs its next load, and returns if that decides.
isValidSpeedLoad ==
  /\ rpc # "idle"
  /\ LET v == kp[LoadField[rpc]]
         to == AfterLoad(rpc, v, rcmd)
     IN /\ regs' = [l \in (DOMAIN regs) \cup {rpc} |-> IF l = rpc THEN v ELSE regs[l]]
        /\ rpc' = to.pc
        /\ last' = IF to.done
                   THEN [op |-> "isValidSpeed", x |-> rcmd[1], y |-> rcmd[2],
                         theta |-> rcmd[3], ret |-> to.ret]
                   ELSE last
  /\ UNCHANGED <<kp, params, config, callback_set, event, cb_pc, cb_event, queue,
                 started, notified, rcmd, published, snaps>>

\* Updates alone: notifications, their dispatch and the callback's statements.
NextQueue ==
  \/ Initialize
  \/ \E b \in UniformBatches : Notify(b)
  \/ \E t \in Threads : Dispatch(t)
  \/ \E t \in Threads : reconfigureCBStep(t)

SpecQueue == Init /\ [][NextQueue]_vars

\* Updates on the configuration thread interleaved with isValidSpeed on the
\* planning thread.
NextRW ==
  \/ Initialize
  \/ \E b \in UniformBatches : Notify(b)
  \/ \E t \in Threads : Dispatch(t)
  \/ \E t \in Threads : reconfigureCBStep(t)
  \/ \E c \in ConcCmds : isValidSpeedCall(c)
  \/ isValidSpeedLoad

SpecRW == Init /\ [][NextRW]_vars

----------------------------------------------------------------------------
(* Properties of the operations run to completion (Spec) *)

Queried == last.op = "isValidSpeed"
Updated == last.op = "reconfigureCB"
VmagSq == last.x * last.x + last.y * last.y
AbsTheta == IF last.theta < 0 THEN 0 - last.theta ELSE last.theta

\* (a) the command exceeds an enabled top planar speed
TooFast == kp.max_speed_xy_ >= 0 /\ VmagSq > kp.max_speed_xy_sq_
\* (b) the command is below an enabled planar floor and an enabled rotation floor
TooSlow ==
  /\ kp.min_speed_xy_ >= 0 /\ VmagSq < kp.min_speed_xy_sq_
  /\ kp.min_speed_theta_ >= 0 /\ AbsTheta < kp.min_speed_theta_
\* (c) the command is exactly zero
ZeroCommand == VmagSq = 0 /\ last.theta = 0

\* C1: isValidSpeed returns false exactly when the command is too fast (a), or
\* too slow in translation and in rotation at once (b), or exactly zero (c).
C1_RejectsExactly == Queried => (last.ret = ~(TooFast \/ TooSlow \/ ZeroCommand))

\* A call rejected by (b) alone: neither too fast nor the zero command.
C1_Witness ==
  /\ Queried /\ ~last.ret /\ TooSlow /\ ~TooFast /\ ~ZeroCommand

\* C2: in every reachable state isValidSpeed(0, 0, 0) returns false, also when
\* bounds are negative (disabled).
C2_ZeroRejected ==
  /\ ~isValidSpeed(kp, 0, 0, 0)
  /\ (Queried /\ last.x = 0 /\ last.y = 0 /\ last.theta = 0) => ~last.ret

\* The zero command was queried after an update that disabled all three bounds.
C2_Witness ==
  /\ Queried /\ last.x = 0 /\ last.y = 0 /\ last.theta = 0 /\ ~last.ret
  /\ kp.max_speed_xy_ < 0 /\ kp.min_speed_xy_ < 0 /\ kp.min_speed_theta_ < 0

\* C3: a negative bound is never the cause of a rejection: with max_speed_xy_ < 0
\* a rejected command is too slow or zero; with min_speed_xy_ < 0 or
\* min_speed_theta_ < 0 a rejected command is too fast or zero; with all three
\* negative exactly the zero command is rejected.
C3_DisabledNeverRejects ==
  Queried =>
    /\ (kp.max_speed_xy_ < 0 /\ ~last.ret) => (TooSlow \/ ZeroCommand)
    /\ ((kp.min_speed_xy_ < 0 \/ kp.min_speed_theta_ < 0) /\ ~last.ret)
         => ((kp.max_speed_xy_ >= 0 /\ VmagSq > kp.max_speed_xy_sq_) \/ ZeroCommand)
    /\ (kp.max_speed_xy_ < 0 /\ kp.min_speed_xy_ < 0 /\ kp.min_speed_theta_ < 0)
         => (last.ret = ~ZeroCommand)

\* All three bounds negative, the command faster than the cached square and
\* slower than the cached floors, and accepted.
C3_Witness ==
  /\ Queried /\ last.ret
  /\ kp.max_speed_xy_ < 0 /\ kp.min_speed_xy_ < 0 /\ kp.min_speed_theta_ < 0
  /\ VmagSq > kp.max_speed_xy_sq_

\* C4: after construction and after every completed update the squared caches
\* equal the squares of the speed bounds that update applied.
C4_CachesSquared ==
  /\ kp.min_speed_xy_sq_ = kp.min_speed_xy_ * kp.min_speed_xy_
  /\ kp.max_speed_xy_sq_ = kp.max_speed_xy_ * kp.max_speed_xy_

\* An update carried both speed bounds, with different squares.
C4_Witness ==
  /\ Updated
  /\ "max_speed_xy" \in DOMAIN event /\ event["max_speed_xy"] = MaxVal
  /\ "min_speed_xy" \in DOMAIN event /\ event["min_speed_xy"] = 0 - 1
  /\ kp.max_speed_xy_sq_ = MaxVal * MaxVal /\ kp.min_speed_xy_sq_ = 1

\* C9: after each update every limit equals the value the batch carries for its
\* name, or 0 if the batch omits the name; the deceleration default is not
\* re-applied.
C9_BatchOrZero ==
  Updated =>
    \A n \in Names :
      kp[Member[n]] = (IF n \in DOMAIN event THEN event[n] ELSE 0)

\* A batch carried acc_lim_x and omitted decel_lim_x, which is left at 0.
C9_Witness ==
  /\ Updated
  /\ "acc_lim_x" \in DOMAIN event /\ event["acc_lim_x"] = MaxVal
  /\ "decel_lim_x" \notin DOMAIN event
  /\ kp.acc_lim_x_ = MaxVal /\ kp.decel_lim_x_ = 0

\* No update has delivered a value: the object is as constructed.
Unpopulated == event = EmptyMap
OmitsMaxSpeed == "max_speed_xy" \notin DOMAIN event
StandingTurn == last.x = 0 /\ last.y = 0 /\ last.theta # 0

\* C10 as stated: until the first update everything is 0 and isValidSpeed
\* accepts exactly the commands with x = y = 0 and theta # 0; the same after any
\* update whose batch omits max_speed_xy.
C10_AsStated ==
  /\ Unpopulated => kp = Constructed
  /\ (Queried /\ OmitsMaxSpeed) => (last.ret = StandingTurn)

\* C10 as amended: until the first update everything is 0 and isValidSpeed
\* accepts exactly the commands with x = y = 0 and theta # 0; after an update
\* whose batch omits max_speed_xy every command with x*x+y*y > 0 is rejected,
\* and a command with x = y = 0 and theta # 0 is accepted unless the too-slow
\* test rejects it.
C10_ZeroTopSpeed ==
  /\ Unpopulated => kp = Constructed
  /\ (Queried /\ Unpopulated) => (last.ret = StandingTurn)
  /\ (Queried /\ OmitsMaxSpeed) =>
       /\ VmagSq > 0 => ~last.ret
       /\ last.ret = (StandingTurn /\ ~TooSlow)

\* A moving command queried before initialize has run, and rejected.
C10_Witness ==
  /\ Queried /\ ~callback_set /\ VmagSq > 0 /\ ~last.ret /\ kp = Constructed

----------------------------------------------------------------------------
(* Properties of start-up (SpecInit) *)

Configured(n) == n \in DOMAIN config
Axes == {"x", "y", "theta"}
Decel == [x |-> "decel_lim_x", y |-> "decel_lim_y", theta |-> "decel_lim_theta"]
Accel == [x |-> "acc_lim_x", y |-> "acc_lim_y", theta |-> "acc_lim_theta"]

\* C7: after initialize, per axis: a deceleration limit that was not configured
\* is the negated acceleration limit if that was configured, and is not created
\* otherwise; a configured deceleration limit keeps its value.
C7_DecelDefault ==
  callback_set =>
    \A d \in Axes :
      /\ (~Configured(Decel[d]) /\ Configured(Accel[d]))
           => (Decel[d] \in DOMAIN params /\ params[Decel[d]] = 0 - config[Accel[d]])
      /\ Configured(Decel[d])
           => (Decel[d] \in DOMAIN params /\ params[Decel[d]] = config[Decel[d]])
      /\ (~Configured(Decel[d]) /\ ~Configured(Accel[d]))
           => Decel[d] \notin DOMAIN params

\* Only acc_lim_x was configured and initialize created decel_lim_x = -acc_lim_x.
C7_Witness ==
  /\ callback_set
  /\ Configured("acc_lim_x") /\ config["acc_lim_x"] = MaxVal
  /\ ~Configured("decel_lim_x")
  /\ "decel_lim_x" \in DOMAIN params /\ params["decel_lim_x"] = 0 - MaxVal

OldName ==
  [max_vel_theta |-> "max_rot_vel", min_speed_xy |-> "min_trans_vel",
   max_speed_xy |-> "max_trans_vel", min_speed_theta |-> "min_rot_vel"]

\* C8: after initialize, per renamed pair: the current name holds the old name's
\* value if only the old name was configured, and keeps its own value if both
\* were configured.
C8_RenamedFallback ==
  callback_set =>
    \A cur \in DOMAIN OldName :
      /\ (Configured(OldName[cur]) /\ ~Configured(cur))
           => (cur \in DOMAIN params /\ params[cur] = config[OldName[cur]])
      /\ (Configured(OldName[cur]) /\ Configured(cur))
           => (cur \in DOMAIN params /\ params[cur] = config[cur])

\* Both max_rot_vel and max_vel_theta were configured, with different values,
\* and max_vel_theta kept its own.
C8_Witness ==
  /\ callback_set
  /\ Configured("max_rot_vel") /\ Configured("max_vel_theta")
  /\ config["max_rot_vel"] # config["max_vel_theta"]
  /\ params["max_vel_theta"] = config["max_vel_theta"]

----------------------------------------------------------------------------
(* Properties of interleaved executions (SpecRW, SpecQueue) *)

\* C5: every field an isValidSpeed call reads comes from one and the same limit
\* set: the one before or the one after an update the call overlaps.
C5_ReadsOneSnapshot ==
  regs # EmptyMap =>
    \E s \in snaps : \A l \in DOMAIN regs : regs[l] = s[LoadField[l]]

Running == {t \in Threads : cb_pc[t] # 0}

RECURSIVE applyInOrder(_, _, _, _)
applyInOrder(o, batches, order, i) ==
  IF i > Len(batches) THEN o
  ELSE applyInOrder(reconfigureCB(o, batches[order[i]]), batches, order, i + 1)

Orders(n) == {f \in [1..n -> 1..n] : \A i, j \in 1..n : f[i] = f[j] => i = j}

====
